---- MODULE Spec2Model ----
(***************************************************************************)
(* A model of src/app.py, the Streamlit financial expenditure dashboard.   *)
(* One rerun of the script is one "pass": load_data (cached) -> st.stop on *)
(* an empty frame -> Data Cleaning -> the four cascading selectboxes ->    *)
(* Apply Filters -> KPIs -> the AI summary toolbar -> the two charts ->    *)
(* the detailed table.                                                     *)
(*                                                                         *)
(* Text is modelled character by character: a string is a sequence of      *)
(* one-character tokens, so that str.upper(), the regex strip, sorted()    *)
(* and pd.to_numeric are computed rather than assumed.                     *)
(***************************************************************************)
EXTENDS Integers, Sequences, FiniteSets, TLC

(***************************************************************************)
(* Bounds of the model.                                                    *)
(***************************************************************************)
\* longest raw amount text enumerated by the coercion specification
MaxTextLen == 3
\* most rows of a sheet drawn from the row pool
MaxRows == 3
\* most distinct states of a "wide" sheet (one row per state)
MaxStates == 11

(***************************************************************************)
(* Characters.  CodeOrder lists the characters the model uses in code      *)
(* point order; "U+0967" stands for DEVANAGARI DIGIT ONE and "U+20B9" for  *)
(* the INDIAN RUPEE SIGN.                                                  *)
(***************************************************************************)
CodeOrder ==
  << " ", "$", "+", ",", "-", ".",
     "0", "1", "2", "3", "4", "5", "6", "7", "8", "9",
     "A", "B", "C", "D", "E", "F", "G", "H", "I", "J", "K", "L", "M",
     "N", "O", "P", "Q", "R", "S", "T", "U", "V", "W", "X", "Y", "Z",
     "a", "b", "c", "d", "e", "f", "g", "h", "i", "j", "k", "l", "m",
     "n", "o", "p", "q", "r", "s", "t", "u", "v", "w", "x", "y", "z",
     "U+0967", "U+20B9" >>

Chars == {CodeOrder[i] : i \in 1..Len(CodeOrder)}

CodeTable == [c \in Chars |-> CHOOSE i \in 1..Len(CodeOrder) : CodeOrder[i] = c]

\* ord(c), up to the gaps between the listed characters
Code(c) == CodeTable[c]

AsciiDigits == {"0", "1", "2", "3", "4", "5", "6", "7", "8", "9"}

IsLower(c) == Code(c) >= Code("a") /\ Code(c) <= Code("z")

\* str.upper() on one character: a-z map to A-Z, everything else is kept
UpperChar(c) == IF IsLower(c) THEN CodeOrder[Code(c) - 26] ELSE c

\* Series.str.upper()
Upper(s) == [i \in 1..Len(s) |-> UpperChar(s[i])]

\* Python's str comparison: lexicographic by code point
StrLess(a, b) ==
  \E i \in 1..(Len(a) + 1) :
     /\ \A j \in 1..(i - 1) : j <= Len(b) /\ a[j] = b[j]
     /\ i <= Len(b)
     /\ (i = Len(a) + 1 \/ Code(a[i]) < Code(b[i]))

DigitChar(d) == CodeOrder[Code("0") + d]

DigitVal(c) == Code(c) - Code("0")

RECURSIVE IntToStr(_)
\* str() of a non-negative int
IntToStr(n) ==
  IF n < 10 THEN << DigitChar(n) >>
  ELSE Append(IntToStr(n \div 10), DigitChar(n % 10))

(***************************************************************************)
(* Cells of the frame pd.read_csv returns: text (object dtype), an int (a  *)
(* column read_csv parsed as int64) or NaN (an empty cell).                *)
(***************************************************************************)
StrCell(s) == [k |-> "str", v |-> s, n |-> 0]
IntCell(i) == [k |-> "int", v |-> << >>, n |-> i]
NaNCell == [k |-> "nan", v |-> << >>, n |-> 0]

\* Series.astype(str): str(value) of every cell, 'nan' for NaN
AsTypeStr(c) ==
  CASE c.k = "str" -> c.v
    [] c.k = "int" -> IntToStr(c.n)
    [] OTHER -> << "n", "a", "n" >>

\* raw cell == selected (a str): equal only for a text cell with that text
CellEqStr(c, s) == c.k = "str" /\ c.v = s

(***************************************************************************)
(* Data Cleaning (numeric coercion).  Amounts are held as integers in      *)
(* units of 10^-FracDigits; no text of the model has more decimals.        *)
(***************************************************************************)
FracDigits == MaxTextLen

RECURSIVE Pow10(_)
Pow10(n) == IF n = 0 THEN 1 ELSE 10 * Pow10(n - 1)

Scale == Pow10(FracDigits)

\* \d of a Python 3 str pattern: any Unicode decimal digit
IsRegexDigit(c) == c \in AsciiDigits \/ c = "U+0967"

StripKeepsSign(c) == IsRegexDigit(c) \/ c = "." \/ c = "-"

\* the characters the pattern [^\d.] leaves in place
StripKeeps(c) == IsRegexDigit(c) \/ c = "."

\* .str.replace(r'[^\d.]', '', regex=True)
StripNonNumeric(s) == SelectSeq(s, StripKeeps)

RECURSIVE DigitsValue(_)
\* the value of a string of ASCII digits ('' is 0)
DigitsValue(s) ==
  IF s = << >> THEN 0
  ELSE 10 * DigitsValue(SubSeq(s, 1, Len(s) - 1)) + DigitVal(s[Len(s)])

\* the fraction digits f as a number of 10^-FracDigits units
FracValue(f) ==
  LET g == IF Len(f) > FracDigits THEN SubSeq(f, 1, FracDigits) ELSE f
  IN DigitsValue(g) * Pow10(FracDigits - Len(g))

\* pd.to_numeric(errors='coerce') on one text: [sign] digits [. digits] with
\* at least one digit parses; anything else is NaN
ToNumeric(s) ==
  LET signed == s # << >> /\ s[1] \in {"+", "-"}
      body == IF signed THEN Tail(s) ELSE s
      dots == {i \in 1..Len(body) : body[i] = "."}
      ok == /\ \A i \in 1..Len(body) : body[i] \in AsciiDigits \cup {"."}
            /\ Cardinality(dots) <= 1
            /\ \E i \in 1..Len(body) : body[i] \in AsciiDigits
      dot == IF dots = {} THEN Len(body) + 1 ELSE CHOOSE i \in dots : TRUE
      mag == DigitsValue(SubSeq(body, 1, dot - 1)) * Scale
             + FracValue(SubSeq(body, dot + 1, Len(body)))
  IN IF ok
       THEN [nan |-> FALSE, v |-> IF signed /\ s[1] = "-" THEN 0 - mag ELSE mag]
       ELSE [nan |-> TRUE, v |-> 0]

\* Series.fillna(0)
FillNa(x) == IF x.nan THEN 0 ELSE x.v

\* one cell through the two lines of the cleaning loop
CoerceCell(c) == FillNa(ToNumeric(StripNonNumeric(AsTypeStr(c))))

numeric_cols ==
  {"child_expenditure_limit_assigned", "success", "pending", "re_initiated", "balance"}

\* the cleaning loop on one row
CleanRow(r) ==
  [f \in DOMAIN r |-> IF f \in numeric_cols THEN CoerceCell(r[f]) ELSE r[f]]

\* the cleaning loop on the frame
CleanFrame(d) == [i \in 1..Len(d) |-> CleanRow(d[i])]

(***************************************************************************)
(* Configuration (lines 8-18) and the sidebar's wildcard options.          *)
(***************************************************************************)
\* len(CLEAN_COLUMN_NAMES)
NumColumns == 11

\* .nlargest(10)
TopN == 10

CRORE_FACTOR == 10

AllStates == << "A", "l", "l", " ", "S", "t", "a", "t", "e", "s" >>
AllCategories ==
  << "A", "l", "l", " ", "C", "a", "t", "e", "g", "o", "r", "i", "e", "s" >>
AllAgencies == << "A", "l", "l", " ", "A", "g", "e", "n", "c", "i", "e", "s" >>
AllCodes == << "A", "l", "l", " ", "C", "o", "d", "e", "s" >>

Range(q) == {q[i] : i \in 1..Len(q)}

RECURSIVE SortedStrings(_)
\* sorted(<list of str>) of a list of distinct strings
SortedStrings(S) ==
  IF S = {} THEN << >>
  ELSE LET m == CHOOSE x \in S : \A y \in S \ {x} : StrLess(x, y)
       IN << m >> \o SortedStrings(S \ {m})

(***************************************************************************)
(* Sheets the source can hold.  A row is one record of the frame with the  *)
(* columns the pipeline reads (agency_type is read by nothing).            *)
(***************************************************************************)
Row(sr, ag, uid, st, cat, lim, suc, pen, rei, bal) ==
  [sr_no |-> sr, agency_name |-> ag, unique_id |-> uid, state |-> st,
   category |-> cat, child_expenditure_limit_assigned |-> lim, success |-> suc,
   pending |-> pen, re_initiated |-> rei, balance |-> bal]

RowPool ==
  << Row(1, StrCell(<<"X">>), StrCell(<<"U", "1">>), StrCell(<<"U", "P">>),
         StrCell(<<"A">>), StrCell(<<"1", "0", "0">>), StrCell(<<"5", "0">>),
         StrCell(<<"3", "0">>), StrCell(<<"2", "0">>), StrCell(<<"0">>)),
     Row(2, StrCell(<<"X">>), StrCell(<<"U", "2">>), StrCell(<<"U", "P">>),
         StrCell(<<"B">>), StrCell(<<"2", "0", "0">>), StrCell(<<"1", "0", "0">>),
         StrCell(<<"0">>), StrCell(<<"0">>), StrCell(<<"1", "0", "0">>)),
     Row(3, StrCell(<<"Y">>), StrCell(<<"U", "2">>), StrCell(<<"u", "p">>),
         StrCell(<<"A">>), StrCell(<<"U+20B9", "1", ",", "5">>),
         StrCell(<<"-", "5">>), NaNCell, StrCell(<<"1", ".", "5">>),
         StrCell(<<"1", ".", "2", ".", "3">>)),
     Row(4, StrCell(<<"Y">>), StrCell(<<"U", "4">>), StrCell(<<"M", "p">>),
         NaNCell, NaNCell, StrCell(<<"7">>), StrCell(<<"1">>),
         StrCell(<<"n", "i", "l">>), StrCell(<<".">>)),
     Row(5, NaNCell, IntCell(7), NaNCell, StrCell(<<"B">>), StrCell(<<"0">>),
         StrCell(<<"9">>), StrCell(<<"0">>), StrCell(<<"0">>), StrCell(<<"0">>)),
     Row(6, StrCell(<<"Z">>), IntCell(12), StrCell(<<"U", "P">>), IntCell(1),
         StrCell(<<"4", "0">>), StrCell(<<"1", "0">>), StrCell(<<"5">>),
         StrCell(<<"5">>), StrCell(<<"2", "0">>)),
     Row(7, StrCell(<<"Z">>), IntCell(7), StrCell(<<"m", "p">>), IntCell(2),
         StrCell(<<"6", "0">>), StrCell(<<"3", "0">>), StrCell(<<"1", "0">>),
         StrCell(<<"0">>), StrCell(<<"2", "0">>)) >>

\* read_csv infers one dtype per column: int64 only when every cell is an int
ColumnDtypeOK(d, f) ==
  (\A i \in 1..Len(d) : d[i][f].k = "int") \/ (\A i \in 1..Len(d) : d[i][f].k # "int")

\* consecutive rows of the pool, at most MaxRows of them
PoolSheets ==
  {s \in {SubSeq(RowPool, i, j) : i \in 1..Len(RowPool), j \in 1..Len(RowPool)} :
     /\ Len(s) >= 1
     /\ Len(s) <= MaxRows
     /\ \A f \in {"agency_name", "unique_id", "state", "category"} : ColumnDtypeOK(s, f)}

WidePatterns == {"ascending", "descending", "flat"}

\* one row per state S1..Sk; the limits rise, fall or tie
WideSheet(k, p) ==
  [i \in 1..k |->
     Row(i, StrCell(<<"X">>), StrCell(<<"U", "1">>), StrCell(<<"S">> \o IntToStr(i)),
         StrCell(<<"A">>),
         StrCell(IntToStr(CASE p = "ascending" -> i
                            [] p = "descending" -> k + 1 - i
                            [] OTHER -> 5)),
         StrCell(<<"1">>), StrCell(<<"0">>), StrCell(<<"0">>), StrCell(<<"0">>))]

WideSheets == {WideSheet(k, p) : k \in (TopN - 1)..MaxStates, p \in WidePatterns}

Sheets == PoolSheets \cup WideSheets

(***************************************************************************)
(* State.                                                                  *)
(***************************************************************************)
VARIABLES
  pc,                   \* the script's position in the current pass
  sheet,                \* the rows the Google Sheet holds
  cache,                \* st.cache_data's entry for load_data(DATA_URL)
  df,                   \* the frame of the pass
  messages,             \* st.error / st.success / st.info shown in the pass
  executed,             \* the steps run in the pass
  state_options,        \* the four selectboxes' option lists
  category_options,
  agency_options,
  code_options,
  selected_state,       \* the four selectboxes' values
  selected_category,
  selected_agency,
  selected_unique_id,
  df_filtered,
  totals,               \* total_limit .. total_balance
  success_rate,
  summary_placeholder,  \* what the AI summary box shows
  category_summary,
  state_summary,
  df_display,
  last                  \* the sidebar of the pass before (options and values)

vars ==
  << pc, sheet, cache, df, messages, executed, state_options, category_options,
     agency_options, code_options, selected_state, selected_category,
     selected_agency, selected_unique_id, df_filtered, totals, success_rate,
     summary_placeholder, category_summary, state_summary, df_display, last >>

sidebar ==
  << state_options, category_options, agency_options, code_options, selected_state,
     selected_category, selected_agency, selected_unique_id >>

results ==
  << df_filtered, totals, success_rate, summary_placeholder, category_summary,
     state_summary, df_display >>

(***************************************************************************)
(* load_data (lines 121-148).                                              *)
(***************************************************************************)
\* pd.DataFrame()
EmptyDF == << >>

\* DataFrame.empty
IsEmpty(d) == Len(d) = 0

\* what pd.read_csv(url, header=None, names=..., skiprows=1) can do: raise, or
\* return a frame.  With names= pandas yields NumColumns columns; the guard of
\* line 133 is modelled for a frame of any width.
ReadCsvOutcomes(s) ==
  {[raised |-> TRUE, exc |-> e, ncols |-> 0, rows |-> << >>] :
      e \in {"HTTP Error 401: Unauthorized", "HTTP Error 403: Forbidden",
             "HTTP Error 404: Not Found", "timed out"}}
  \cup {[raised |-> FALSE, exc |-> "", ncols |-> NumColumns, rows |-> s],
        [raised |-> FALSE, exc |-> "", ncols |-> NumColumns, rows |-> << >>],
        [raised |-> FALSE, exc |-> "", ncols |-> NumColumns - 1, rows |-> s]}

\* "401" in str(e) or "Unauthorized" in str(e) or "403" in str(e)
MentionsUnauthorized(e) ==
  e \in {"HTTP Error 401: Unauthorized", "HTTP Error 403: Forbidden"}

\* the body of load_data on one outcome of read_csv: the frame returned and
\* the messages shown
LoadDataBody(o) ==
  IF o.raised
    THEN IF MentionsUnauthorized(o.exc)
           THEN [value |-> EmptyDF, msgs |-> {"error_unauthorized"}]
           ELSE [value |-> EmptyDF, msgs |-> {"error_fetch"}]
    ELSE IF o.ncols # NumColumns \/ IsEmpty(o.rows)
           THEN [value |-> EmptyDF, msgs |-> {"error_loading"}]
           ELSE [value |-> o.rows, msgs |-> {"success_loaded"}]

NoCache == [valid |-> FALSE, value |-> EmptyDF, msgs |-> {}]

ErrorMessages == {"error_unauthorized", "error_fetch", "error_loading"}

(***************************************************************************)
(* Sidebar filters (lines 215-245) and Apply Filters (lines 247-256).      *)
(***************************************************************************)
\* d[d['state'].astype(str).str.upper() == sel]
FilterState(d, sel) ==
  LET Keep(r) == Upper(AsTypeStr(r.state)) = sel
  IN SelectSeq(d, Keep)

\* d[d[f] == sel]
FilterColumn(d, f, sel) ==
  LET Keep(r) == CellEqStr(r[f], sel)
  IN SelectSeq(d, Keep)

\* d[f].astype(str).unique()
UniqueStr(d, f) == {AsTypeStr(d[i][f]) : i \in 1..Len(d)}

StateOptions ==
  << AllStates >> \o SortedStrings({Upper(AsTypeStr(df[i].state)) : i \in 1..Len(df)})

df_for_category_selection ==
  IF selected_state # AllStates THEN FilterState(df, selected_state) ELSE df

CategoryOptions ==
  << AllCategories >> \o SortedStrings(UniqueStr(df_for_category_selection, "category"))

df_for_agency_selection_by_code ==
  LET d == IF selected_category # AllCategories
             THEN FilterColumn(df_for_category_selection, "category", selected_category)
             ELSE df_for_category_selection
  IN IF last.valid /\ last.selected_unique_id # AllCodes
       THEN FilterColumn(d, "unique_id", last.selected_unique_id)
       ELSE d

df_for_agency_selection ==
  IF selected_category # AllCategories
    THEN FilterColumn(df_for_category_selection, "category", selected_category)
    ELSE df_for_category_selection

AgencyOptions ==
  << AllAgencies >> \o SortedStrings(UniqueStr(df_for_agency_selection, "agency_name"))

df_for_unique_code_selection ==
  IF selected_agency # AllAgencies
    THEN FilterColumn(df_for_agency_selection, "agency_name", selected_agency)
    ELSE df_for_agency_selection

CodeOptions ==
  << AllCodes >> \o SortedStrings(UniqueStr(df_for_unique_code_selection, "unique_id"))

ApplyFiltersNoCode(d, s, c, a, u) ==
  LET d1 == IF s # AllStates THEN FilterState(d, s) ELSE d
      d2 == IF c # AllCategories THEN FilterColumn(d1, "category", c) ELSE d1
  IN IF a # AllAgencies THEN FilterColumn(d2, "agency_name", a) ELSE d2

\* df_filtered: the four filters one after the other
ApplyFilters(d, s, c, a, u) ==
  LET d1 == IF s # AllStates THEN FilterState(d, s) ELSE d
      d2 == IF c # AllCategories THEN FilterColumn(d1, "category", c) ELSE d1
      d3 == IF a # AllAgencies THEN FilterColumn(d2, "agency_name", a) ELSE d2
  IN IF u # AllCodes THEN FilterColumn(d3, "unique_id", u) ELSE d3

(***************************************************************************)
(* KPIs (lines 263-269).                                                   *)
(***************************************************************************)
RECURSIVE SumCol(_, _)
\* d[f].sum(): 0 for an empty frame
SumCol(d, f) == IF d = << >> THEN 0 ELSE d[1][f] + SumCol(Tail(d), f)

Totals(d) ==
  [total_limit |-> SumCol(d, "child_expenditure_limit_assigned"),
   total_success |-> SumCol(d, "success"),
   total_pending |-> SumCol(d, "pending"),
   total_reinitiated |-> SumCol(d, "re_initiated"),
   total_balance |-> SumCol(d, "balance")]

NoTotals ==
  [total_limit |-> 0, total_success |-> 0, total_pending |-> 0,
   total_reinitiated |-> 0, total_balance |-> 0]

\* a ratio num/den; den = 0 stands for a division by zero
Ratio(n, d) == [num |-> n, den |-> d]

SuccessRateGuardsSuccess(t) ==
  IF t.total_success # 0
    THEN Ratio(t.total_success * 100, t.total_limit)
    ELSE Ratio(0, 1)

\* (total_success / total_limit) * 100 if total_limit != 0 else 0
SuccessRate(t) ==
  IF t.total_limit # 0
    THEN Ratio(t.total_success * 100, t.total_limit)
    ELSE Ratio(0, 1)

(***************************************************************************)
(* AI summary (lines 151-196, 344-365).                                    *)
(***************************************************************************)
\* how requests.post and the parsing of its response can end
SummaryOutcomes == {"ok", "request_exception", "bad_response"}

\* generate_summary's return value: the text, or one of the two failure texts
GenerateSummary(o) ==
  CASE o = "ok" -> "summary_text"
    [] o = "request_exception" -> "failed_api_error"
    [] OTHER -> "failed_processing_error"

(***************************************************************************)
(* The two grouped summaries (lines 378, 418-419) and the table (450-453). *)
(***************************************************************************)
\* the order groupby sorts its keys in (one dtype per column)
CellLess(a, b) ==
  IF a.k = "int" /\ b.k = "int" THEN a.n < b.n ELSE StrLess(AsTypeStr(a), AsTypeStr(b))

RECURSIVE SortedCells(_)
SortedCells(S) ==
  IF S = {} THEN << >>
  ELSE LET m == CHOOSE x \in S : \A y \in S \ {x} : CellLess(x, y)
       IN << m >> \o SortedCells(S \ {m})

\* the rows of d whose column f holds exactly the cell key
RowsOf(d, f, key) ==
  LET Keep(r) == r[f] = key
  IN SelectSeq(d, Keep)

\* groupby(f) keeps the non-NaN keys (dropna=True), sorted
GroupKeys(d, f) == SortedCells({d[i][f] : i \in 1..Len(d)} \ {NaNCell})

\* df_filtered.groupby('category')[['success','pending','re_initiated']].sum().reset_index()
GroupByCategory(d) ==
  LET keys == GroupKeys(d, "category")
  IN [i \in 1..Len(keys) |->
        LET g == RowsOf(d, "category", keys[i])
        IN [category |-> keys[i], success |-> SumCol(g, "success"),
            pending |-> SumCol(g, "pending"),
            re_initiated |-> SumCol(g, "re_initiated")]]

\* df_filtered.groupby('state')['child_expenditure_limit_assigned'].sum()
GroupByStateLimit(d) ==
  LET keys == GroupKeys(d, "state")
  IN [i \in 1..Len(keys) |->
        [state |-> keys[i],
         child_expenditure_limit_assigned |->
           SumCol(RowsOf(d, "state", keys[i]), "child_expenditure_limit_assigned")]]

RemoveAt(q, i) == SubSeq(q, 1, i - 1) \o SubSeq(q, i + 1, Len(q))

RECURSIVE NLargest(_, _)
\* Series.nlargest(n), keep='first': the n largest in descending order, ties
\* in the order of the series
NLargest(q, n) ==
  IF n = 0 \/ q = << >> THEN << >>
  ELSE LET i == CHOOSE j \in 1..Len(q) :
                  /\ \A m \in 1..Len(q) :
                       q[m].child_expenditure_limit_assigned
                         <= q[j].child_expenditure_limit_assigned
                  /\ \A m \in 1..(j - 1) :
                       q[m].child_expenditure_limit_assigned
                         < q[j].child_expenditure_limit_assigned
       IN << q[i] >> \o NLargest(RemoveAt(q, i), n - 1)

TopStatesUntruncated(d) == GroupByStateLimit(d)

\* state_summary of line 419
TopStates(d) == NLargest(GroupByStateLimit(d), TopN)

NoStateSummary == [shown |-> FALSE, rows |-> << >>]

\* df_display: the amounts divided by CRORE_FACTOR
DisplayFrame(d) ==
  [i \in 1..Len(d) |->
     [f \in DOMAIN d[i] |->
        IF f \in numeric_cols THEN Ratio(d[i][f], CRORE_FACTOR) ELSE d[i][f]]]

(***************************************************************************)
(* The pass, step by step.                                                 *)
(***************************************************************************)
Unset == << >>

NoLast ==
  [valid |-> FALSE, df |-> EmptyDF,
   state_options |-> << >>, category_options |-> << >>,
   agency_options |-> << >>, code_options |-> << >>,
   selected_state |-> Unset, selected_category |-> Unset,
   selected_agency |-> Unset, selected_unique_id |-> Unset]

PassStart ==
  /\ pc = "load"
  /\ df = EmptyDF
  /\ messages = {}
  /\ executed = {}
  /\ state_options = << >>
  /\ category_options = << >>
  /\ agency_options = << >>
  /\ code_options = << >>
  /\ selected_state = Unset
  /\ selected_category = Unset
  /\ selected_agency = Unset
  /\ selected_unique_id = Unset
  /\ df_filtered = EmptyDF
  /\ totals = NoTotals
  /\ success_rate = Ratio(0, 1)
  /\ summary_placeholder = ""
  /\ category_summary = << >>
  /\ state_summary = NoStateSummary
  /\ df_display = << >>

Init ==
  /\ sheet \in Sheets
  /\ cache = NoCache
  /\ last = NoLast
  /\ PassStart

\* line 200 with a live cache entry: the stored frame and messages come back
LoadCached ==
  /\ pc = "load"
  /\ cache.valid
  /\ df' = cache.value
  /\ messages' = cache.msgs
  /\ executed' = executed \cup {"load"}
  /\ pc' = "loaded"
  /\ UNCHANGED << sheet, cache, sidebar, results, last >>

\* line 200 with no entry, or one older than ttl=60: load_data runs
LoadFetch ==
  /\ pc = "load"
  /\ \E o \in ReadCsvOutcomes(sheet) :
       LET r == LoadDataBody(o)
       IN /\ cache' = [valid |-> TRUE, value |-> r.value, msgs |-> r.msgs]
          /\ df' = r.value
          /\ messages' = r.msgs
  /\ executed' = executed \cup {"load"}
  /\ pc' = "loaded"
  /\ UNCHANGED << sheet, sidebar, results, last >>

\* `df is None`: load_data never returns None
ShouldStopOnNone == FALSE

\* line 202: if df.empty
ShouldStop == IsEmpty(df)

\* lines 202-203: st.stop()
Stop ==
  /\ pc = "loaded"
  /\ ShouldStop
  /\ pc' = "stopped"
  /\ UNCHANGED << sheet, cache, df, messages, executed, sidebar, results, last >>

\* lines 205-209
Clean ==
  /\ pc = "loaded"
  /\ ~ShouldStop
  /\ df' = CleanFrame(df)
  /\ executed' = executed \cup {"clean"}
  /\ pc' = "sel_state"
  /\ UNCHANGED << sheet, cache, messages, sidebar, results, last >>

\* lines 215-218: the selectbox returns one of the options it offers
SelectState ==
  /\ pc = "sel_state"
  /\ state_options' = StateOptions
  /\ \E v \in Range(StateOptions) : selected_state' = v
  /\ executed' = executed \cup {"select"}
  /\ pc' = "sel_category"
  /\ UNCHANGED << sheet, cache, df, messages, category_options, agency_options,
                  code_options, selected_category, selected_agency,
                  selected_unique_id, results, last >>

\* lines 220-227
SelectCategory ==
  /\ pc = "sel_category"
  /\ category_options' = CategoryOptions
  /\ \E v \in Range(CategoryOptions) : selected_category' = v
  /\ pc' = "sel_agency"
  /\ UNCHANGED << sheet, cache, df, messages, executed, state_options,
                  agency_options, code_options, selected_state, selected_agency,
                  selected_unique_id, results, last >>

\* lines 229-236
SelectAgency ==
  /\ pc = "sel_agency"
  /\ agency_options' = AgencyOptions
  /\ \E v \in Range(AgencyOptions) : selected_agency' = v
  /\ pc' = "sel_code"
  /\ UNCHANGED << sheet, cache, df, messages, executed, state_options,
                  category_options, code_options, selected_state,
                  selected_category, selected_unique_id, results, last >>

\* lines 238-245
SelectUniqueId ==
  /\ pc = "sel_code"
  /\ code_options' = CodeOptions
  /\ \E v \in Range(CodeOptions) : selected_unique_id' = v
  /\ pc' = "filter"
  /\ UNCHANGED << sheet, cache, df, messages, executed, state_options,
                  category_options, agency_options, selected_state,
                  selected_category, selected_agency, results, last >>

\* lines 247-256
Filter ==
  /\ pc = "filter"
  /\ df_filtered' = ApplyFilters(df, selected_state, selected_category,
                                 selected_agency, selected_unique_id)
  /\ executed' = executed \cup {"filter"}
  /\ pc' = "kpi"
  /\ UNCHANGED << sheet, cache, df, messages, sidebar, totals, success_rate,
                  summary_placeholder, category_summary, state_summary,
                  df_display, last >>

\* lines 263-340
CalculateKPIs ==
  /\ pc = "kpi"
  /\ totals' = Totals(df_filtered)
  /\ success_rate' = SuccessRate(Totals(df_filtered))
  /\ executed' = executed \cup {"kpi"}
  /\ pc' = "ai"
  /\ UNCHANGED << sheet, cache, df, messages, sidebar, df_filtered,
                  summary_placeholder, category_summary, state_summary,
                  df_display, last >>

\* lines 347, 363-365: the button was not pressed
SummaryHint ==
  /\ pc = "ai"
  /\ summary_placeholder' = "hint"
  /\ pc' = "vis1"
  /\ UNCHANGED << sheet, cache, df, messages, executed, sidebar, df_filtered,
                  totals, success_rate, category_summary, state_summary,
                  df_display, last >>

\* lines 347-359: the button was pressed; generate_summary is called
SummaryCall ==
  /\ pc = "ai"
  /\ summary_placeholder' = "spinner"
  /\ pc' = "ai_wait"
  /\ UNCHANGED << sheet, cache, df, messages, executed, sidebar, df_filtered,
                  totals, success_rate, category_summary, state_summary,
                  df_display, last >>

\* lines 359-362: generate_summary returns; the script goes on
SummaryReturn ==
  /\ pc = "ai_wait"
  /\ \E o \in SummaryOutcomes : summary_placeholder' = GenerateSummary(o)
  /\ executed' = executed \cup {"summary"}
  /\ pc' = "vis1"
  /\ UNCHANGED << sheet, cache, df, messages, sidebar, df_filtered, totals,
                  success_rate, category_summary, state_summary, df_display, last >>

\* lines 374-411
CategoryChart ==
  /\ pc = "vis1"
  /\ category_summary' = GroupByCategory(df_filtered)
  /\ executed' = executed \cup {"category_chart"}
  /\ pc' = "vis2"
  /\ UNCHANGED << sheet, cache, df, messages, sidebar, df_filtered, totals,
                  success_rate, summary_placeholder, state_summary, df_display, last >>

\* lines 418-440
StateChart ==
  /\ pc = "vis2"
  /\ selected_state = AllStates
  /\ state_summary' = [shown |-> TRUE, rows |-> TopStates(df_filtered)]
  /\ executed' = executed \cup {"state_chart"}
  /\ pc' = "table"
  /\ UNCHANGED << sheet, cache, df, messages, sidebar, df_filtered, totals,
                  success_rate, summary_placeholder, category_summary,
                  df_display, last >>

\* lines 441-442
StateChartNotApplicable ==
  /\ pc = "vis2"
  /\ selected_state # AllStates
  /\ messages' = messages \cup {"info_top10_not_applicable"}
  /\ pc' = "table"
  /\ UNCHANGED << sheet, cache, df, executed, sidebar, results, last >>

\* lines 446-456
DetailTable ==
  /\ pc = "table"
  /\ df_display' = DisplayFrame(df_filtered)
  /\ executed' = executed \cup {"table"}
  /\ pc' = "done"
  /\ UNCHANGED << sheet, cache, df, messages, sidebar, df_filtered, totals,
                  success_rate, summary_placeholder, category_summary,
                  state_summary, last >>

\* a widget change or a page reload starts the script again from the top
Rerun ==
  /\ pc \in {"done", "stopped"}
  /\ pc' = "load"
  /\ df' = EmptyDF
  /\ messages' = {}
  /\ executed' = {}
  /\ state_options' = << >>
  /\ category_options' = << >>
  /\ agency_options' = << >>
  /\ code_options' = << >>
  /\ selected_state' = Unset
  /\ selected_category' = Unset
  /\ selected_agency' = Unset
  /\ selected_unique_id' = Unset
  /\ df_filtered' = EmptyDF
  /\ totals' = NoTotals
  /\ success_rate' = Ratio(0, 1)
  /\ summary_placeholder' = ""
  /\ category_summary' = << >>
  /\ state_summary' = NoStateSummary
  /\ df_display' = << >>
  /\ UNCHANGED << sheet, cache, last >>

Pass ==
  \/ LoadCached
  \/ LoadFetch
  \/ Stop
  \/ Clean
  \/ SelectState
  \/ SelectCategory
  \/ SelectAgency
  \/ SelectUniqueId
  \/ Filter
  \/ CalculateKPIs
  \/ SummaryHint
  \/ SummaryCall
  \/ SummaryReturn
  \/ CategoryChart
  \/ StateChart
  \/ StateChartNotApplicable
  \/ DetailTable

Next == Pass \/ Rerun

Spec == Init /\ [][Next]_vars

(***************************************************************************)
(* The same script with the sidebar of the pass before remembered in       *)
(* `last`, over the sheets of the row pool: two consecutive passes can be  *)
(* compared.                                                               *)
(***************************************************************************)
InitCascade ==
  /\ sheet \in PoolSheets
  /\ cache = NoCache
  /\ last = NoLast
  /\ PassStart

RerunSidebar ==
  /\ pc \in {"done", "stopped"}
  /\ last' = IF pc = "done"
               THEN [valid |-> TRUE, df |-> df,
                     state_options |-> state_options,
                     category_options |-> category_options,
                     agency_options |-> agency_options,
                     code_options |-> code_options,
                     selected_state |-> selected_state,
                     selected_category |-> selected_category,
                     selected_agency |-> selected_agency,
                     selected_unique_id |-> selected_unique_id]
               ELSE NoLast
  /\ pc' = "load"
  /\ df' = EmptyDF
  /\ messages' = {}
  /\ executed' = {}
  /\ state_options' = << >>
  /\ category_options' = << >>
  /\ agency_options' = << >>
  /\ code_options' = << >>
  /\ selected_state' = Unset
  /\ selected_category' = Unset
  /\ selected_agency' = Unset
  /\ selected_unique_id' = Unset
  /\ df_filtered' = EmptyDF
  /\ totals' = NoTotals
  /\ success_rate' = Ratio(0, 1)
  /\ summary_placeholder' = ""
  /\ category_summary' = << >>
  /\ state_summary' = NoStateSummary
  /\ df_display' = << >>
  /\ UNCHANGED << sheet, cache >>

NextCascade == Pass \/ RerunSidebar

SpecCascade == InitCascade /\ [][NextCascade]_vars

(***************************************************************************)
(* Data Cleaning alone, on one-row frames whose amount cells range over    *)
(* every text of at most MaxTextLen characters of CoerceAlphabet, NaN, an  *)
(* int column and the rupee amount of the documentation.                   *)
(***************************************************************************)
CoerceAlphabet == {"0", "1", "5", ".", ",", "-", " ", "e", "U+20B9", "U+0967"}

Texts(n) == UNION {[1..m -> CoerceAlphabet] : m \in 0..n}

RupeeAmount ==
  << "U+20B9", "1", ",", "2", "0", ",", "0", "0", "0", ".", "5", "0" >>

CoerceCells ==
  {StrCell(t) : t \in Texts(MaxTextLen) \cup {RupeeAmount}}
  \cup {NaNCell, IntCell(0), IntCell(120)}

Reverse(t) == [i \in 1..Len(t) |-> t[Len(t) + 1 - i]]

CoerceSheet(c) ==
  << Row(1, StrCell(<<"X">>), StrCell(<<"U", "1">>), StrCell(<<"U", "P">>),
         StrCell(<<"A">>), c,
         IF c.k = "str" THEN StrCell(Reverse(c.v)) ELSE c,
         IF c.k = "str" THEN StrCell(<<"-">> \o c.v) ELSE NaNCell,
         NaNCell, IntCell(Len(c.v))) >>

InitCoerce ==
  /\ sheet \in {CoerceSheet(c) : c \in CoerceCells}
  /\ cache = [valid |-> TRUE, value |-> sheet, msgs |-> {"success_loaded"}]
  /\ last = NoLast
  /\ pc = "loaded"
  /\ df = sheet
  /\ messages = {"success_loaded"}
  /\ executed = {"load"}
  /\ state_options = << >>
  /\ category_options = << >>
  /\ agency_options = << >>
  /\ code_options = << >>
  /\ selected_state = Unset
  /\ selected_category = Unset
  /\ selected_agency = Unset
  /\ selected_unique_id = Unset
  /\ df_filtered = EmptyDF
  /\ totals = NoTotals
  /\ success_rate = Ratio(0, 1)
  /\ summary_placeholder = ""
  /\ category_summary = << >>
  /\ state_summary = NoStateSummary
  /\ df_display = << >>

NextCoerce == Clean

SpecCoerce == InitCoerce /\ [][NextCoerce]_vars

(***************************************************************************)
(* Properties.                                                             *)
(***************************************************************************)
AllWildcards ==
  /\ selected_state = AllStates
  /\ selected_category = AllCategories
  /\ selected_agency = AllAgencies
  /\ selected_unique_id = AllCodes

\* record r meets every non-wildcard constraint of the current selection
MeetsSelection(r) ==
  /\ selected_state = AllStates \/ Upper(AsTypeStr(r.state)) = selected_state
  /\ selected_category = AllCategories \/ r.category = StrCell(selected_category)
  /\ selected_agency = AllAgencies \/ r.agency_name = StrCell(selected_agency)
  /\ selected_unique_id = AllCodes \/ r.unique_id = StrCell(selected_unique_id)

\* C1: once Apply Filters has run, df_filtered is exactly the records of df
\* that meet every non-wildcard constraint at once (state after upper-casing,
\* the other three by equality with the raw cell), in df's order; so it is
\* no longer than df, and it is df itself when all four are wildcards.
FilteredIsConjunction ==
  "filter" \in executed =>
     /\ df_filtered = SelectSeq(df, MeetsSelection)
     /\ Len(df_filtered) <= Len(df)
     /\ AllWildcards => df_filtered = df

\* a pass that narrowed two rows to one by state (case-folded) and category
FilteredIsConjunctionWitness ==
  /\ "filter" \in executed
  /\ selected_state # AllStates
  /\ selected_category # AllCategories
  /\ Len(df) = 2
  /\ Len(df_filtered) = 1
  /\ df_filtered[1].state # StrCell(selected_state)

SidebarDone == pc \in {"filter", "kpi", "ai", "ai_wait", "vis1", "vis2", "table", "done"}

\* C2: between two consecutive passes over the same frame, the state option
\* list is the same whatever changed; the category list is the same if the
\* state selection is; the agency list is the same if the state and category
\* selections are; the code list is the same if the state, category and
\* agency selections are.
CascadeOrderLaw ==
  (SidebarDone /\ last.valid /\ last.df = df) =>
     /\ state_options = last.state_options
     /\ selected_state = last.selected_state
          => category_options = last.category_options
     /\ (selected_state = last.selected_state
         /\ selected_category = last.selected_category)
          => agency_options = last.agency_options
     /\ (selected_state = last.selected_state
         /\ selected_category = last.selected_category
         /\ selected_agency = last.selected_agency)
          => code_options = last.code_options

\* two passes that differ in the category, agency and code selections only
CascadeOrderLawWitness ==
  /\ pc = "done"
  /\ last.valid
  /\ last.df = df
  /\ selected_state = last.selected_state
  /\ selected_category # last.selected_category
  /\ selected_agency # last.selected_agency
  /\ selected_unique_id # last.selected_unique_id
  /\ Len(category_options) > 2

\* C3: once the category summary is computed, each of its status columns
\* sums to the corresponding total of the same filtered subset.
CategoryRowsSumToTotals ==
  "category_chart" \in executed =>
     /\ SumCol(category_summary, "success") = totals.total_success
     /\ SumCol(category_summary, "pending") = totals.total_pending
     /\ SumCol(category_summary, "re_initiated") = totals.total_reinitiated

\* a text that is a decimal number: ASCII digits with at most one '.', and
\* at least one digit
IsDecimalText(t) ==
  /\ \A i \in 1..Len(t) : t[i] \in AsciiDigits \cup {"."}
  /\ Cardinality({i \in 1..Len(t) : t[i] = "."}) <= 1
  /\ \E i \in 1..Len(t) : t[i] \in AsciiDigits

\* the text left of a raw cell when every character that is neither a digit
\* nor '.' is dropped
DigitsAndDots(c) ==
  LET Keep(x) == IsRegexDigit(x) \/ x = "."
  IN SelectSeq(AsTypeStr(c), Keep)

\* C4: once Data Cleaning has run, every amount of every row is a finite
\* number >= 0, and it is 0 whenever the stripped text of the raw cell is not
\* a decimal number.
CoercionTotalNonNegative ==
  "clean" \in executed =>
     \A i \in 1..Len(df) : \A f \in numeric_cols :
        /\ df[i][f] \in Nat
        /\ ~IsDecimalText(DigitsAndDots(sheet[i][f])) => df[i][f] = 0

\* a cleaned row whose raw limit held a minus sign and a character that is
\* not a digit, and came out positive
CoercionTotalNonNegativeWitness ==
  /\ "clean" \in executed
  /\ sheet[1].child_expenditure_limit_assigned.k = "str"
  /\ "-" \in Range(sheet[1].child_expenditure_limit_assigned.v)
  /\ "," \in Range(sheet[1].child_expenditure_limit_assigned.v)
  /\ df[1].child_expenditure_limit_assigned > 0
  /\ df[1].re_initiated = 0

\* C5: once the KPIs are computed, the success ratio is exactly 0 when the
\* limits of the filtered subset sum to 0, and sum(success) * 100 / sum(limit)
\* otherwise; no division by zero happens.
DivisionByZeroLaw ==
  "kpi" \in executed =>
     LET limit == SumCol(df_filtered, "child_expenditure_limit_assigned")
         success == SumCol(df_filtered, "success")
     IN /\ success_rate.den # 0
        /\ limit = 0 => success_rate.num = 0
        /\ limit # 0 => success_rate = Ratio(success * 100, limit)

\* a non-empty subset with no limit assigned and some success
DivisionByZeroLawWitness ==
  /\ "kpi" \in executed
  /\ df_filtered # << >>
  /\ totals.total_limit = 0
  /\ totals.total_success > 0

StateChartDone == pc \in {"table", "done"}

\* the summed limit of the records of the filtered subset whose state cell is c
LimitOfState(c) ==
  SumCol(RowsOf(df_filtered, "state", c), "child_expenditure_limit_assigned")

\* the states of the filtered subset: the state cells that hold a value
StatesPresent == {df_filtered[i].state : i \in 1..Len(df_filtered)} \ {NaNCell}

\* C6: the top-N state summary is computed exactly when the state selection
\* is 'All States'.  Otherwise the pass shows the "not applicable" notice and
\* no table.  When computed it has at most TopN entries, one per state of the
\* filtered subset, each with that state's summed limit, in descending order
\* of the sum, and no state left out has a larger sum than one shown.
TopStatesLaw ==
  /\ state_summary.shown <=> (StateChartDone /\ selected_state = AllStates)
  /\ "info_top10_not_applicable" \in messages
       <=> (StateChartDone /\ selected_state # AllStates)
  /\ ~state_summary.shown => state_summary.rows = << >>
  /\ state_summary.shown =>
       LET rows == state_summary.rows
           shownStates == {rows[i].state : i \in 1..Len(rows)}
       IN /\ Len(rows) <= TopN
          /\ Len(rows) = IF Cardinality(StatesPresent) < TopN
                           THEN Cardinality(StatesPresent) ELSE TopN
          /\ Cardinality(shownStates) = Len(rows)
          /\ shownStates \subseteq StatesPresent
          /\ \A i \in 1..Len(rows) :
               rows[i].child_expenditure_limit_assigned = LimitOfState(rows[i].state)
          /\ \A i \in 1..(Len(rows) - 1) :
               rows[i].child_expenditure_limit_assigned
                 >= rows[i + 1].child_expenditure_limit_assigned
          /\ \A c \in StatesPresent \ shownStates : \A i \in 1..Len(rows) :
               LimitOfState(c) <= rows[i].child_expenditure_limit_assigned

\* more than TopN states, cut to TopN, the first strictly above the last
TopStatesLawWitness ==
  /\ state_summary.shown
  /\ Cardinality(StatesPresent) > TopN
  /\ Len(state_summary.rows) = TopN
  /\ state_summary.rows[1].child_expenditure_limit_assigned
       > state_summary.rows[TopN].child_expenditure_limit_assigned

\* C7: a pass whose load failed (load_data returned the empty frame) shows an
\* error and no success message and runs no step after the load: nothing is
\* cleaned, selected, filtered, aggregated or rendered; and a pass that shows
\* a load error has the empty frame.  A pass that goes on has the whole sheet.
IngestionFailureHalts ==
  /\ ("load" \in executed /\ df = EmptyDF) =>
        /\ messages \cap ErrorMessages # {}
        /\ "success_loaded" \notin messages
        /\ executed = {"load"}
        /\ pc \in {"loaded", "stopped"}
        /\ sidebar = << << >>, << >>, << >>, << >>, Unset, Unset, Unset, Unset >>
        /\ results = << EmptyDF, NoTotals, Ratio(0, 1), "", << >>, NoStateSummary, << >> >>
  /\ messages \cap ErrorMessages # {} => df = EmptyDF
  /\ ("load" \in executed /\ df # EmptyDF) =>
        /\ "success_loaded" \in messages
        /\ Len(df) = Len(sheet)

\* a pass stopped after an access denial
IngestionFailureHaltsWitness ==
  /\ pc = "stopped"
  /\ "error_unauthorized" \in messages
  /\ cache.valid

\* C8: while generate_summary has not returned, the category summary can
\* still be computed and rendered.
SummaryDoesNotBlock == pc = "ai_wait" => ENABLED CategoryChart

\* C9: the top-N state summary has one entry per upper-cased state: no two
\* entries differ in letter case only.
StateSummaryFoldsCase ==
  state_summary.shown =>
     \A i, j \in 1..Len(state_summary.rows) :
        i # j => Upper(AsTypeStr(state_summary.rows[i].state))
                   # Upper(AsTypeStr(state_summary.rows[j].state))

\* C10: every selection taken from the offered option lists leaves at least
\* one record of a non-empty frame.
OfferedOptionsSelectRecords ==
  ("filter" \in executed /\ df # EmptyDF) => df_filtered # EmptyDF
====
